---- MODULE Spec2Model ----
(***************************************************************************)
(* State-machine model of the banking aggregate of bank-system-python:     *)
(* domain/bank.py (Bank, AuthToken), domain/account.py (Account) and       *)
(* domain/person.py (Person, Client).                                      *)
(*                                                                         *)
(* Strings that the code inspects character by character (passwords,       *)
(* names) are sequences of one-character strings.  Money is an integer     *)
(* number of centavos (Decimal with two places).  An exception raised by   *)
(* an operation is recorded, by its class name, in result.out.             *)
(***************************************************************************)
EXTENDS Integers, Sequences, FiniteSets, TLC

VARIABLES
    bank_clients,        \* Bank._bank_clients: cpf -> Client
    bank_accounts,       \* Bank._bank_accounts: (branch, number) -> Account
    associated_clients,  \* Bank._associated_clients: cpf -> (password -> key)
    access_attempts,     \* Bank._access_attempts: cpf -> failed attempts
    auth_token,          \* the caller's token: what authenticate returned last
    result               \* the last call: operation, token presented, outcome,
                         \* returned value

bankVars == <<bank_clients, bank_accounts, associated_clients, access_attempts>>
vars == <<bank_clients, bank_accounts, associated_clients, access_attempts,
          auth_token, result>>

----------------------------------------------------------------------------
(* Bounds of the model *)

\* well-formed passwords the callers choose from: "111111", "222222", ...
NumPasswords == 3
\* the callers stop registering accounts once the registry holds this many
MaxAccounts == 2
\* the callers stop presenting wrong passwords for a client whose
\* failed-attempt counter has reached this value
MaxCount == 4
\* the callers stop depositing to and withdrawing from an account whose
\* transaction history has this many entries
MaxLog == 2

(* Program constants *)
PASSWORD_DIGITS == 6
MAX_ATTEMPTS == 3
MIN_AGE == 18
MAX_AGE == 120
\* Decimal("0.5") and CheckingAccount.CREDIT_LIMIT = Decimal("3000.00"), in centavos
MIN_VALUE == 50
CREDIT_LIMIT == 300000

----------------------------------------------------------------------------
(* Values *)

\* Python's None, for a value that is otherwise a token or an account key:
\* the empty set, and the value v is {v}
None == {}
Some(v) == {v}

Digits == {"0", "1", "2", "3", "4", "5", "6", "7", "8", "9"}
Letters == {"A", "B", "a", "b", "n", "o"}

DigitOf(d) == CHOOSE c \in Digits : c = ToString(d)

HomeBranch == "1234"
ForeignBranch == "4321"
Branches == {HomeBranch, ForeignBranch}
AccountNums == {"00000001", "00000002"}
\* two accounts of the home branch and one of another branch
AccountKeys == {<<HomeBranch, "00000001">>, <<HomeBranch, "00000002">>,
                <<ForeignBranch, "00000001">>}

CpfAna == "52998224725"
CpfBob == "11144477735"
Cpfs == {CpfAna, CpfBob}
\* the client who logs in; the other one only registers
LoginCpfs == {CpfAna}

WellFormedPasswords == {[i \in 1..PASSWORD_DIGITS |-> DigitOf(d)] : d \in 1..NumPasswords}
MalformedPasswords == {<<"1", "1", "1", "1", "1", "a">>}
Passwords == WellFormedPasswords \cup MalformedPasswords

NameAna == <<"A", "n", "a">>
NameBob == <<"B", "o", "b">>

\* dates are <<day, month, year>>; a 'dd/mm/yyyy' string that strptime
\* refuses is a triple that is no calendar date
Today == <<3, 11, 2026>>
BirthAna == <<15, 6, 1990>>
BirthBob == <<1, 12, 1985>>

\* what a caller answers to the identity questions: right and wrong pairs,
\* and a malformed name or date
Identities == {<<NameAna, BirthAna>>, <<NameBob, BirthBob>>, <<NameAna, BirthBob>>,
               <<NameBob, BirthAna>>, <<<<"A", "n", " ">>, BirthAna>>,
               <<NameAna, <<4, 11, 2008>>>>}

\* the opening balance of the account a caller creates under each key
OpeningBalance(key) == IF key[2] \in {"00000002", "00000004"} THEN 100 ELSE 0

\* AuthToken(client_cpf, branch_code, account_num, signature)
AuthToken(cpf, branch, num, sig) ==
    [client_cpf |-> cpf, branch_code |-> branch, account_num |-> num, signature |-> sig]

\* tokens built outside the Bank: the signature keeps its default, False
ForgedTokens == {AuthToken(CpfAna, HomeBranch, "00000001", FALSE)}

\* the class of the account a caller creates under each key
KindOf(key) ==
    IF key[2] \in {"00000002", "00000003"} THEN "CheckingAccount" ELSE "SavingsAccount"

\* the amounts the callers deposit and withdraw
Amounts == {200}

\* the accounts of the callers who only deposit and withdraw: a savings and
\* a checking account opened empty, and one of each opened with 1.00
AcctKeys == {<<HomeBranch, "00000001">>, <<HomeBranch, "00000002">>,
             <<HomeBranch, "00000003">>, <<HomeBranch, "00000004">>}
\* the amounts they try whatever the balance is: a negative one, 0.49, 0.50,
\* 2.00 and the whole credit line
FixedAmounts == {-100, 49, 50, 200, 300000}

\* a new SavingsAccount or CheckingAccount(branch_code, account_num, balance),
\* as __init__ leaves it: active, a positive balance recorded as the first
\* transaction, no credit used (used_credit stays 0 on a SavingsAccount,
\* which has no such attribute)
NewAccount(branch, num, bal, kind) ==
    [kind |-> kind, branch_code |-> branch, account_num |-> num, balance |-> bal,
     transactions |-> IF bal > 0 THEN <<bal>> ELSE <<>>,
     used_credit |-> 0, is_active |-> TRUE]
NewAccounts == {NewAccount(k[1], k[2], OpeningBalance(k), KindOf(k)) : k \in AccountKeys}

\* a new Client(name, birth_date, cpf): its wallet of cards is empty
NewClient(name, birth, cpf) ==
    [name |-> name, birth_date |-> birth, client_cpf |-> cpf, account_cards |-> {}]
NewClients == {NewClient(NameAna, BirthAna, CpfAna),
               NewClient(NameBob, BirthBob, CpfBob)}

\* the methods class Client defines or inherits from Person
ClientMethods == {"has_account", "add_card", "remove_card", "to_dict", "from_dict",
                  "validate_name", "validate_birth_date"}

----------------------------------------------------------------------------
(* Validators *)

\* verify.verify_digits: exact length, digits only (TRUE when it does not raise)
verify_digits(param, size) ==
    /\ Len(param) = size
    /\ \A i \in 1..Len(param) : param[i] \in Digits

\* a validate_password that looks at the length only
validate_password_length_only(password) == Len(password) = PASSWORD_DIGITS

\* Bank.validate_password: TRUE when no BankPasswordError is raised
validate_password(password) == verify_digits(password, PASSWORD_DIGITS)

\* Person.validate_name: TRUE when no InvalidNameError is raised
validate_name(name) ==
    /\ Len(name) >= 3
    /\ name[1] # " " /\ name[Len(name)] # " "
    /\ \E i \in 1..Len(name) : name[i] # " "
    /\ \A i \in 1..Len(name) : name[i] = " " \/ name[i] \in Letters

IsLeap(y) == (y % 4 = 0 /\ y % 100 # 0) \/ y % 400 = 0
DaysIn(m, y) ==
    IF m = 2 THEN (IF IsLeap(y) THEN 29 ELSE 28)
    ELSE IF m \in {4, 6, 9, 11} THEN 30 ELSE 31

\* datetime.strptime(birth_date, "%d/%m/%Y") succeeds
strptime_ok(d) == d[2] \in 1..12 /\ d[1] \in 1..DaysIn(d[2], d[3])

\* date comparison a > b
DateAfter(a, b) ==
    \/ a[3] > b[3]
    \/ a[3] = b[3] /\ a[2] > b[2]
    \/ a[3] = b[3] /\ a[2] = b[2] /\ a[1] > b[1]

\* Person._calculate_age: the tuples compared are (day, month)
calculate_age(birth) ==
    LET age == Today[3] - birth[3]
        before == \/ Today[1] < birth[1]
                  \/ Today[1] = birth[1] /\ Today[2] < birth[2]
    IN IF before THEN age - 1 ELSE age

\* Person.validate_birth_date: TRUE when no InvalidBirthDateError is raised
validate_birth_date(birth) ==
    /\ strptime_ok(birth)
    /\ ~DateAfter(birth, Today)
    /\ MIN_AGE <= calculate_age(birth) /\ calculate_age(birth) <= MAX_AGE

----------------------------------------------------------------------------
(* The Bank's operations.  Each is an operator that gives the outcome of   *)
(* the call in the current state: what it returned or raised (out, ret)    *)
(* and the four registries as the call leaves them.                        *)

Outcome(out, ret, clients, accounts, assoc, attempts) ==
    [out |-> out, ret |-> ret, clients |-> clients, accounts |-> accounts,
     assoc |-> assoc, attempts |-> attempts]

\* the call raised `out` and had changed nothing
Raise(out) ==
    Outcome(out, None, bank_clients, bank_accounts, associated_clients, access_attempts)

\* dict.setdefault(k, v)
setdefault(d, k, v) == IF k \in DOMAIN d THEN d ELSE d @@ (k :> v)

\* del d[k]
del(d, k) == [x \in DOMAIN d \ {k} |-> d[x]]

\* Bank._extract_account_key, and the key a token names
extract_account_key(account) == <<account.branch_code, account.account_num>>
target_key(token) == <<token.branch_code, token.account_num>>

\* Account.freeze / Account.unfreeze on the account stored under key
freeze(accounts, key) == [accounts EXCEPT ![key].is_active = FALSE]
unfreeze(accounts, key) == [accounts EXCEPT ![key].is_active = TRUE]

\* an authenticate that does not compare the branch with the bank's own
authenticate_any_branch(client_cpf, branch_code, account_num) ==
    LET registered_client == client_cpf \in DOMAIN bank_clients
        registered_account == <<branch_code, account_num>> \in DOMAIN bank_accounts
    IN IF registered_client /\ registered_account
       THEN Some(AuthToken(client_cpf, branch_code, account_num, TRUE))
       ELSE None

\* verify.verify_interval(target_value, min_val, max_val): max_val may be None
verify_interval(target_value, min_val, max_val) ==
    /\ target_value >= min_val
    /\ \A m \in max_val : target_value <= m

\* a deposit that also reactivates the account
deposit_reactivating(account, value) ==
    LET balance == account.balance + value
    IN IF ~verify_interval(value, MIN_VALUE, None)
       THEN [ok |-> FALSE, account |-> account]
       ELSE [ok |-> TRUE,
             account |-> [account EXCEPT
                 !.balance = balance,
                 !.transactions = Append(@, value),
                 !.used_credit = IF account.kind = "CheckingAccount"
                                 THEN (IF balance < 0 THEN -balance ELSE 0)
                                 ELSE @,
                 !.is_active = TRUE]]

\* a deposit that refuses the smallest amount
deposit_above_minimum(account, value) ==
    LET balance == account.balance + value
    IN IF ~(value > MIN_VALUE)
       THEN [ok |-> FALSE, account |-> account]
       ELSE [ok |-> TRUE,
             account |-> [account EXCEPT
                 !.balance = balance,
                 !.transactions = Append(@, value),
                 !.used_credit = IF account.kind = "CheckingAccount"
                                 THEN (IF balance < 0 THEN -balance ELSE 0)
                                 ELSE @]]

\* a deposit that leaves the used credit as it was
deposit_keeping_credit(account, value) ==
    LET balance == account.balance + value
    IN IF ~verify_interval(value, MIN_VALUE, None)
       THEN [ok |-> FALSE, account |-> account]
       ELSE [ok |-> TRUE,
             account |-> [account EXCEPT
                 !.balance = balance,
                 !.transactions = Append(@, value)]]

\* a deposit that is not written to the transactions
deposit_unrecorded(account, value) ==
    LET balance == account.balance + value
    IN IF ~verify_interval(value, MIN_VALUE, None)
       THEN [ok |-> FALSE, account |-> account]
       ELSE [ok |-> TRUE,
             account |-> [account EXCEPT
                 !.balance = balance,
                 !.used_credit = IF account.kind = "CheckingAccount"
                                 THEN (IF balance < 0 THEN -balance ELSE 0)
                                 ELSE @]]

\* Account.deposit and CheckingAccount.deposit: ok is FALSE when it raises
\* InvalidDepositError
deposit(account, value) ==
    LET balance == account.balance + value
    IN IF ~verify_interval(value, MIN_VALUE, None)
       THEN [ok |-> FALSE, account |-> account]
       ELSE [ok |-> TRUE,
             account |-> [account EXCEPT
                 !.balance = balance,
                 !.transactions = Append(@, value),
                 !.used_credit = IF account.kind = "CheckingAccount"
                                 THEN (IF balance < 0 THEN -balance ELSE 0)
                                 ELSE @]]

\* a withdraw that refuses the amount that empties what is available
withdraw_below_available(account, value) ==
    LET available == IF account.kind = "CheckingAccount"
                     THEN CREDIT_LIMIT + account.balance
                     ELSE account.balance
        balance == account.balance - value
    IN IF ~(value >= MIN_VALUE /\ value < available)
       THEN [ok |-> FALSE, account |-> account]
       ELSE [ok |-> TRUE,
             account |-> [account EXCEPT
                 !.balance = balance,
                 !.transactions = Append(@, -value),
                 !.used_credit = IF account.kind = "CheckingAccount" /\ balance < 0
                                 THEN -balance ELSE @]]

\* a withdraw that leaves the used credit as it was
withdraw_forgetting_credit(account, value) ==
    LET available == IF account.kind = "CheckingAccount"
                     THEN CREDIT_LIMIT + account.balance
                     ELSE account.balance
        balance == account.balance - value
    IN IF ~verify_interval(value, MIN_VALUE, Some(available))
       THEN [ok |-> FALSE, account |-> account]
       ELSE [ok |-> TRUE,
             account |-> [account EXCEPT
                 !.balance = balance,
                 !.transactions = Append(@, -value)]]

\* SavingsAccount.withdraw and CheckingAccount.withdraw: ok is FALSE when it
\* raises InvalidWithdrawError
withdraw(account, value) ==
    LET available == IF account.kind = "CheckingAccount"
                     THEN CREDIT_LIMIT + account.balance
                     ELSE account.balance
        balance == account.balance - value
    IN IF ~verify_interval(value, MIN_VALUE, Some(available))
       THEN [ok |-> FALSE, account |-> account]
       ELSE [ok |-> TRUE,
             account |-> [account EXCEPT
                 !.balance = balance,
                 !.transactions = Append(@, -value),
                 !.used_credit = IF account.kind = "CheckingAccount" /\ balance < 0
                                 THEN -balance ELSE @]]

\* a check_withdrawal that counts the whole credit line, used or not
check_withdrawal_whole_limit(account, value) ==
    LET total_funds == IF account.kind = "CheckingAccount"
                       THEN account.balance + CREDIT_LIMIT
                       ELSE account.balance
        is_auth == value <= total_funds
    IN [authorized |-> is_auth,
        uses_limit |-> IF ~is_auth THEN None
                       ELSE IF account.kind = "CheckingAccount"
                       THEN Some(value > account.balance)
                       ELSE Some(FALSE)]

\* CheckingAccount.remaining_credit
remaining_credit(account) == CREDIT_LIMIT - account.used_credit

\* Account.check_withdrawal and CheckingAccount.check_withdrawal:
\* WithdrawalInfo(authorized, uses_limit), uses_limit being None, True or False
check_withdrawal(account, value) ==
    LET total_funds == IF account.kind = "CheckingAccount"
                       THEN account.balance + remaining_credit(account)
                       ELSE account.balance
        is_auth == value <= total_funds
    IN [authorized |-> is_auth,
        uses_limit |-> IF ~is_auth THEN None
                       ELSE IF account.kind = "CheckingAccount"
                       THEN Some(value > account.balance)
                       ELSE Some(FALSE)]

\* str(Decimal) of an amount of money: sign, units, point, two places
RECURSIVE NatDigits(_)
NatDigits(n) ==
    IF n < 10 THEN <<DigitOf(n)>>
    ELSE Append(NatDigits(n \div 10), DigitOf(n % 10))
str_decimal(c) ==
    LET a == IF c < 0 THEN -c ELSE c
    IN (IF c < 0 THEN <<"-">> ELSE <<>>) \o NatDigits(a \div 100) \o <<".">>
       \o <<DigitOf((a % 100) \div 10), DigitOf(a % 10)>>

\* Decimal(str): the amount a string of sign, digits and point denotes
DigitVal(ch) == CHOOSE d \in 0..9 : DigitOf(d) = ch
RECURSIVE ParseNat(_)
ParseNat(s) ==
    IF s = <<>> THEN 0
    ELSE 10 * ParseNat(SubSeq(s, 1, Len(s) - 1)) + DigitVal(s[Len(s)])
RECURSIVE Pow10(_)
Pow10(n) == IF n = 0 THEN 1 ELSE 10 * Pow10(n - 1)
Decimal(s) ==
    LET neg == s # <<>> /\ s[1] = "-"
        body == IF neg THEN Tail(s) ELSE s
        point == {i \in 1..Len(body) : body[i] = "."}
        places == IF point = {} THEN 0 ELSE Len(body) - (CHOOSE i \in point : TRUE)
        n == ParseNat(SelectSeq(body, LAMBDA ch : ch # ".")) * Pow10(2 - places)
    IN IF neg THEN -n ELSE n

\* Account.validate_account_initial_balance: TRUE when no InvalidBalanceError
\* is raised
validate_account_initial_balance(bal) == verify_interval(bal, 0, None)

\* Account.to_dict and CheckingAccount.to_dict (used_credit is a key of the
\* CheckingAccount's dictionary only)
to_dict(account) ==
    [branch_code |-> account.branch_code,
     account_num |-> account.account_num,
     balance |-> str_decimal(account.balance),
     transactions |-> [i \in 1..Len(account.transactions) |->
                          str_decimal(account.transactions[i])],
     is_active |-> account.is_active,
     type |-> account.kind,
     used_credit |-> str_decimal(account.used_credit)]

\* Account.from_dict and CheckingAccount.from_dict: err is the exception
\* raised, or "ok" with the account rebuilt
from_dict(data) ==
    IF data.type \notin {"CheckingAccount", "SavingsAccount"}
    THEN [err |-> "ValueError", account |-> None]
    ELSE IF ~validate_account_initial_balance(Decimal(data.balance))
    THEN [err |-> "InvalidBalanceError", account |-> None]
    ELSE [err |-> "ok",
          account |-> Some(
            [NewAccount(data.branch_code, data.account_num,
                        Decimal(data.balance), data.type)
             EXCEPT !.transactions = [i \in 1..Len(data.transactions) |->
                                         Decimal(data.transactions[i])],
                    !.is_active = data.is_active,
                    !.used_credit = IF data.type = "CheckingAccount"
                                    THEN Decimal(data.used_credit) ELSE @])]

\* Bank.authenticate: the token, or None
authenticate(client_cpf, branch_code, account_num) ==
    LET valid_branch == HomeBranch = branch_code
        registered_client == client_cpf \in DOMAIN bank_clients
        registered_account == <<branch_code, account_num>> \in DOMAIN bank_accounts
    IN IF valid_branch /\ registered_client /\ registered_account
       THEN Some(AuthToken(client_cpf, branch_code, account_num, TRUE))
       ELSE None

\* a call of authenticate that counts a refusal as a failed attempt
authenticate_call_counting(client_cpf, branch_code, account_num) ==
    Outcome(IF authenticate(client_cpf, branch_code, account_num) = None
            THEN "None" ELSE "AuthToken",
            authenticate(client_cpf, branch_code, account_num),
            bank_clients, bank_accounts, associated_clients,
            IF authenticate(client_cpf, branch_code, account_num) = None
            THEN [setdefault(access_attempts, client_cpf, 0)
                     EXCEPT ![client_cpf] = @ + 1]
            ELSE access_attempts)

\* a call of Bank.authenticate: it returns, and assigns nothing
authenticate_call(client_cpf, branch_code, account_num) ==
    Outcome(IF authenticate(client_cpf, branch_code, account_num) = None
            THEN "None" ELSE "AuthToken",
            authenticate(client_cpf, branch_code, account_num),
            bank_clients, bank_accounts, associated_clients, access_attempts)

\* a _check_access that lets the token of a frozen account through
check_access_frozen_ok(token) ==
    IF ~token.signature THEN "BankSecurityError"
    ELSE IF token.client_cpf \notin DOMAIN associated_clients THEN "RuntimeError"
    ELSE IF target_key(token) \notin DOMAIN bank_accounts THEN "RuntimeError"
    ELSE "ok"

\* Bank._check_access: the exception it raises, or "ok"
check_access(token) ==
    IF ~token.signature THEN "BankSecurityError"
    ELSE IF token.client_cpf \notin DOMAIN associated_clients THEN "RuntimeError"
    ELSE IF target_key(token) \notin DOMAIN bank_accounts THEN "RuntimeError"
    ELSE IF ~bank_accounts[target_key(token)].is_active THEN "BlockedAccountError"
    ELSE "ok"

\* the lockout test on the counter, after a wrong password was counted
lockout_reached(count) == count >= MAX_ATTEMPTS

\* a lockout that freezes every account the token's client has a password for
freeze_client_accounts(accounts, token) ==
    [k \in DOMAIN accounts |->
        IF k = target_key(token) \/
           \E p \in DOMAIN associated_clients[token.client_cpf] :
               associated_clients[token.client_cpf][p] = k
        THEN [accounts[k] EXCEPT !.is_active = FALSE]
        ELSE accounts[k]]

\* the accounts after the lockout: only the account the token names is frozen
freeze_target(accounts, token) == freeze(accounts, target_key(token))

\* a get_account that does not compare the account found with the token
cross_access_never(account_key, token) == FALSE

\* the password leads to another account than the one the token names
cross_access(account_key, token) == account_key # target_key(token)

\* an accepted password that leaves the counters as they are
reset_attempts_keep(attempts, cpf) == attempts

\* the counters after a password was accepted
reset_attempts(attempts, cpf) == [attempts EXCEPT ![cpf] = 0]

\* Bank.get_account
get_account(token, password) ==
    IF check_access(token) # "ok" THEN Raise(check_access(token))
    ELSE IF ~validate_password(password) THEN Raise("BankPasswordError")
    ELSE
      LET cpf == token.client_cpf
          client_accounts == associated_clients[cpf]
          attempts0 == setdefault(access_attempts, cpf, 0)
          attempts1 == [attempts0 EXCEPT ![cpf] = @ + 1]
      IN IF password \notin DOMAIN client_accounts
         THEN IF lockout_reached(attempts1[cpf])
              THEN Outcome("BlockedAccountError", None, bank_clients,
                           freeze_target(bank_accounts, token),
                           associated_clients, attempts1)
              ELSE Outcome("AccountNotFoundError", None, bank_clients,
                           bank_accounts, associated_clients, attempts1)
         ELSE IF cross_access(client_accounts[password], token)
         THEN Outcome("BankSecurityError", None, bank_clients, bank_accounts,
                      associated_clients, attempts0)
         ELSE Outcome("Account", Some(client_accounts[password]), bank_clients,
                      bank_accounts, associated_clients,
                      reset_attempts(attempts0, cpf))

\* Bank._issue_card: AccountCard(client_cpf, branch_code, account_num)
issue_card(client_cpf, branch_code, account_num) ==
    [client_cpf |-> client_cpf, branch_code |-> branch_code, account_num |-> account_num]

\* Bank._associate: ok is FALSE when it raises BankPasswordError; assoc is the
\* association map as the call leaves it (setdefault has run either way)
associate(assoc, client_key, account_key, password) ==
    LET assoc0 == setdefault(assoc, client_key, <<>>)
        client_accounts == assoc0[client_key]
    IN IF password \in DOMAIN client_accounts
       THEN [ok |-> FALSE, assoc |-> assoc0]
       ELSE [ok |-> TRUE,
             assoc |-> [assoc0 EXCEPT ![client_key] =
                           setdefault(client_accounts, password, account_key)]]

\* Client.add_card on the client stored under cpf: ok is FALSE when it raises
\* PersonDuplicatedCardError
add_card(clients, cpf, card) ==
    IF card \in clients[cpf].account_cards
    THEN [ok |-> FALSE, clients |-> clients]
    ELSE [ok |-> TRUE,
          clients |-> [clients EXCEPT ![cpf].account_cards = @ \cup {card}]]

\* an _agg_account that stores nothing
agg_account_skip(accounts, account_key, account_to_agg) == accounts

\* Bank._agg_client and Bank._agg_account: d[key] = obj
agg_client(clients, client_key, client_to_agg) ==
    setdefault(del(clients, client_key), client_key, client_to_agg)
agg_account(accounts, account_key, account_to_agg) ==
    setdefault(del(accounts, account_key), account_key, account_to_agg)

\* Bank.agg_new_client
agg_new_client(new_client, new_account, password) ==
    LET client_obj_key == new_client.client_cpf
        account_obj_key == extract_account_key(new_account)
        a == associate(associated_clients, client_obj_key, account_obj_key, password)
        clients1 == agg_client(bank_clients, client_obj_key,
                               [name |-> new_client.name,
                                birth_date |-> new_client.birth_date,
                                account_cards |-> new_client.account_cards])
        accounts1 == agg_account(bank_accounts, account_obj_key, new_account)
        new_card == issue_card(client_obj_key, new_account.branch_code,
                               new_account.account_num)
        c == add_card(clients1, client_obj_key, new_card)
    IN IF client_obj_key \in DOMAIN bank_clients THEN Raise("DuplicatedClientError")
       ELSE IF account_obj_key \in DOMAIN bank_accounts THEN Raise("DuplicatedAccountError")
       ELSE IF ~validate_password(password) THEN Raise("BankPasswordError")
       ELSE IF ~a.ok
       THEN Outcome("BankPasswordError", None, bank_clients, bank_accounts,
                    a.assoc, access_attempts)
       \* new_client.add_account(new_account): Client has no such method
       ELSE IF "add_account" \notin ClientMethods
       THEN Outcome("AttributeError", None, clients1, accounts1, a.assoc,
                    access_attempts)
       ELSE IF ~c.ok
       THEN Outcome("PersonDuplicatedCardError", None, clients1, accounts1,
                    a.assoc, access_attempts)
       ELSE Outcome("ok", None, c.clients, accounts1, a.assoc, access_attempts)

\* Bank.agg_new_account
agg_new_account(client_cpf, new_account, password) ==
    LET new_account_key == extract_account_key(new_account)
        a == associate(associated_clients, client_cpf, new_account_key, password)
        accounts1 == agg_account(bank_accounts, new_account_key, new_account)
        new_card == issue_card(client_cpf, new_account.branch_code,
                               new_account.account_num)
        c == add_card(bank_clients, client_cpf, new_card)
    IN IF client_cpf \notin DOMAIN associated_clients THEN Raise("ClientNotFoundError")
       ELSE IF new_account_key \in DOMAIN bank_accounts THEN Raise("DuplicatedAccountError")
       ELSE IF ~validate_password(password) THEN Raise("BankPasswordError")
       ELSE IF ~a.ok THEN Raise("BankPasswordError")
       \* client_obj = self.get_client(client_cpf)
       ELSE IF client_cpf \notin DOMAIN bank_clients
       THEN Outcome("ClientNotFoundError", None, bank_clients, accounts1, a.assoc,
                    access_attempts)
       \* client_obj.add_account(new_account): Client has no such method
       ELSE IF "add_account" \notin ClientMethods
       THEN Outcome("AttributeError", None, bank_clients, accounts1, a.assoc,
                    access_attempts)
       ELSE IF ~c.ok
       THEN Outcome("PersonDuplicatedCardError", None, bank_clients, accounts1,
                    a.assoc, access_attempts)
       ELSE Outcome("ok", None, c.clients, accounts1, a.assoc, access_attempts)

\* the passwords of a client's association map that lead to account_key
passwords_of(client_accounts, account_key) ==
    {pwd \in DOMAIN client_accounts : client_accounts[pwd] = account_key}

\* Bank._reset_password: ok is FALSE when _associate raises BankPasswordError,
\* after the old password has been deleted
reset_password(assoc, client_cpf, account_key, new_password) ==
    LET client_accounts == assoc[client_cpf]
        old == passwords_of(client_accounts, account_key)
        old_pwd == CHOOSE pwd \in old : TRUE
        assoc1 == IF old = {} THEN assoc
                  ELSE [assoc EXCEPT ![client_cpf] = del(client_accounts, old_pwd)]
    IN associate(assoc1, client_cpf, account_key, new_password)

\* a comparison of the supplied identity that looks at the name only
identity_matches_name(name, date, client_obj) == name = client_obj.name

\* the supplied name and birth date are the ones of the stored client
identity_matches(name, date, client_obj) ==
    <<name, date>> = <<client_obj.name, client_obj.birth_date>>

\* an unfreeze_account that validates what was supplied before it looks at
\* the account
unfreeze_account_validating_first(token, client_name, birth_date, new_password) ==
    LET account_key == target_key(token)
        cpf == token.client_cpf
        r == reset_password(associated_clients, cpf, account_key, new_password)
    IN IF account_key \notin DOMAIN bank_accounts THEN Raise("KeyError")
       ELSE IF ~validate_name(client_name) THEN Raise("InvalidNameError")
       ELSE IF ~validate_birth_date(birth_date) THEN Raise("InvalidBirthDateError")
       ELSE IF ~validate_password(new_password) THEN Raise("BankPasswordError")
       ELSE IF bank_accounts[account_key].is_active THEN Raise("AccountAlreadyActiveError")
       ELSE IF cpf \notin DOMAIN bank_clients THEN Raise("KeyError")
       ELSE IF ~identity_matches(client_name, birth_date, bank_clients[cpf])
       THEN Raise("False")
       ELSE IF cpf \notin DOMAIN associated_clients THEN Raise("KeyError")
       ELSE IF ~r.ok
       THEN Outcome("BankPasswordError", None, bank_clients, bank_accounts,
                    r.assoc, access_attempts)
       ELSE Outcome("True", None, bank_clients, unfreeze(bank_accounts, account_key),
                    r.assoc,
                    [setdefault(access_attempts, cpf, 0) EXCEPT ![cpf] = 0])

\* Bank.unfreeze_account
unfreeze_account(token, client_name, birth_date, new_password) ==
    LET account_key == target_key(token)
        cpf == token.client_cpf
        r == reset_password(associated_clients, cpf, account_key, new_password)
    IN IF account_key \notin DOMAIN bank_accounts THEN Raise("KeyError")
       ELSE IF bank_accounts[account_key].is_active THEN Raise("AccountAlreadyActiveError")
       ELSE IF ~validate_name(client_name) THEN Raise("InvalidNameError")
       ELSE IF ~validate_birth_date(birth_date) THEN Raise("InvalidBirthDateError")
       ELSE IF ~validate_password(new_password) THEN Raise("BankPasswordError")
       ELSE IF cpf \notin DOMAIN bank_clients THEN Raise("KeyError")
       ELSE IF ~identity_matches(client_name, birth_date, bank_clients[cpf])
       THEN Raise("False")
       ELSE IF cpf \notin DOMAIN associated_clients THEN Raise("KeyError")
       ELSE IF ~r.ok
       THEN Outcome("BankPasswordError", None, bank_clients, bank_accounts,
                    r.assoc, access_attempts)
       ELSE Outcome("True", None, bank_clients, unfreeze(bank_accounts, account_key),
                    r.assoc,
                    [setdefault(access_attempts, cpf, 0) EXCEPT ![cpf] = 0])

\* Bank.get_client: the exception it raises, or "Client"
get_client(client_cpf) ==
    IF client_cpf \notin DOMAIN bank_clients THEN "ClientNotFoundError" ELSE "Client"

\* a close_account that refuses only the accounts that hold money
not_empty_positive(account) == account.balance > 0

\* the balance test of close_account
not_empty(account) == account.balance # 0

\* a close_account that looks the password up itself: a wrong password is
\* refused without being counted
close_account_uncounted(token, password) ==
    IF check_access(token) # "ok" THEN Raise(check_access(token))
    ELSE IF ~validate_password(password) THEN Raise("BankPasswordError")
    ELSE IF password \notin DOMAIN associated_clients[token.client_cpf]
    THEN Raise("AccountNotFoundError")
    ELSE IF cross_access(associated_clients[token.client_cpf][password], token)
    THEN Raise("BankSecurityError")
    ELSE IF not_empty(bank_accounts[target_key(token)])
    THEN Raise("NotEmptyAccountError")
    ELSE Raise("AttributeError")

\* Bank.close_account
close_account(token, password) ==
    LET g == get_account(token, password)
        account_key == target_key(token)
        cpf == token.client_cpf
        card == issue_card(cpf, token.branch_code, token.account_num)
        clients1 == [g.clients EXCEPT ![cpf].account_cards = @ \ {card}]
        accounts1 == del(g.accounts, account_key)
        client_accounts == del(g.assoc[cpf], password)
    IN IF g.out # "Account" THEN g
       ELSE IF not_empty(g.accounts[account_key])
       THEN Outcome("NotEmptyAccountError", None, g.clients, g.accounts, g.assoc,
                    g.attempts)
       \* client_obj = self.get_client(token.client_cpf)
       ELSE IF cpf \notin DOMAIN g.clients
       THEN Outcome("ClientNotFoundError", None, g.clients, g.accounts, g.assoc,
                    g.attempts)
       \* client_obj.remove_account(account_obj): Client has no such method
       ELSE IF "remove_account" \notin ClientMethods
       THEN Outcome("AttributeError", None, g.clients, g.accounts, g.assoc,
                    g.attempts)
       ELSE IF DOMAIN client_accounts = {}
       THEN Outcome("ok", None, del(clients1, cpf), accounts1, del(g.assoc, cpf),
                    g.attempts)
       ELSE Outcome("ok", None, clients1, accounts1,
                    [g.assoc EXCEPT ![cpf] = client_accounts], g.attempts)

----------------------------------------------------------------------------
(* The state machine: one caller drives the Bank, one call at a time *)

\* Bank(bank_name, branch_code): empty registries
Init ==
    /\ bank_clients = <<>>
    /\ bank_accounts = <<>>
    /\ associated_clients = <<>>
    /\ access_attempts = <<>>
    /\ auth_token = None
    /\ result = [op |-> "init", tok |-> None, out |-> "None", ret |-> None]

\* the registries and the result after a call, with token tok, of outcome o
Commit(op, tok, o) ==
    /\ bank_clients' = o.clients
    /\ bank_accounts' = o.accounts
    /\ associated_clients' = o.assoc
    /\ access_attempts' = o.attempts
    /\ result' = [op |-> op, tok |-> tok, out |-> o.out, ret |-> o.ret]

\* the tokens a caller can present: the one it holds, or one it built itself
PresentableTokens == auth_token \cup ForgedTokens

\* the caller logs in and keeps what authenticate returned
\* (BankSystemController._get_credentials)
Authenticate(cpf, branch, num) ==
    /\ Commit("authenticate", None, authenticate_call(cpf, branch, num))
    /\ auth_token' = authenticate(cpf, branch, num)

\* a caller that keeps every token authenticate has returned to it
\* (AuthToken is a value; nothing in the Bank revokes one)
AuthenticateKeeping(cpf, branch, num) ==
    /\ Commit("authenticate", None, authenticate_call(cpf, branch, num))
    /\ auth_token' = auth_token \cup authenticate(cpf, branch, num)

\* the counters of an outcome stay within the model's bound
Bounded(o) == \A c \in DOMAIN o.attempts : o.attempts[c] <= MaxCount

GetAccount(token, password) ==
    /\ Bounded(get_account(token, password))
    /\ Commit("get_account", Some(token), get_account(token, password))
    /\ UNCHANGED auth_token

CloseAccount(token, password) ==
    /\ Bounded(close_account(token, password))
    /\ Commit("close_account", Some(token), close_account(token, password))
    /\ UNCHANGED auth_token

UnfreezeAccount(token, name, birth, password) ==
    /\ Commit("unfreeze_account", Some(token),
              unfreeze_account(token, name, birth, password))
    /\ UNCHANGED auth_token

AggNewClient(client, account, password) ==
    /\ Cardinality(DOMAIN bank_accounts) < MaxAccounts
    /\ Commit("agg_new_client", None, agg_new_client(client, account, password))
    /\ UNCHANGED auth_token

AggNewAccount(cpf, account, password) ==
    /\ Cardinality(DOMAIN bank_accounts) < MaxAccounts
    /\ Commit("agg_new_account", None, agg_new_account(cpf, account, password))
    /\ UNCHANGED auth_token

\* a caller deposits to an account it holds a reference to: the Account a
\* caller built and registered is the object get_account hands out
\* (TransactionController._handle_deposit)
Deposit(key, value) ==
    /\ key \in DOMAIN bank_accounts
    /\ Len(bank_accounts[key].transactions) < MaxLog
    /\ bank_accounts' = [bank_accounts EXCEPT ![key] = deposit(@, value).account]
    /\ result' = [op |-> "deposit", tok |-> None,
                  out |-> IF deposit(bank_accounts[key], value).ok
                          THEN "ok" ELSE "InvalidDepositError",
                  ret |-> None]
    /\ UNCHANGED <<bank_clients, associated_clients, access_attempts, auth_token>>

\* a caller withdraws from an account it holds a reference to
\* (SavingsAccount.withdraw, CheckingAccount.withdraw)
Withdraw(key, value) ==
    /\ key \in DOMAIN bank_accounts
    /\ Len(bank_accounts[key].transactions) < MaxLog
    /\ bank_accounts' = [bank_accounts EXCEPT ![key] = withdraw(@, value).account]
    /\ result' = [op |-> "withdraw", tok |-> None,
                  out |-> IF withdraw(bank_accounts[key], value).ok
                          THEN "ok" ELSE "InvalidWithdrawError",
                  ret |-> None]
    /\ UNCHANGED <<bank_clients, associated_clients, access_attempts, auth_token>>

\* a caller asks an account it holds whether a withdrawal would pass
\* (TransactionController._handle_withdraw)
CheckWithdrawal(key, value) ==
    /\ key \in DOMAIN bank_accounts
    /\ result' = [op |-> "check_withdrawal", tok |-> None, out |-> "WithdrawalInfo",
                  ret |-> Some(check_withdrawal(bank_accounts[key], value))]
    /\ UNCHANGED <<bankVars, auth_token>>

\* Account.freeze and Account.unfreeze, called on an account the caller holds
Freeze(key) ==
    /\ key \in DOMAIN bank_accounts
    /\ bank_accounts' = freeze(bank_accounts, key)
    /\ result' = [op |-> "freeze", tok |-> None, out |-> "ok", ret |-> None]
    /\ UNCHANGED <<bank_clients, associated_clients, access_attempts, auth_token>>

Unfreeze(key) ==
    /\ key \in DOMAIN bank_accounts
    /\ bank_accounts' = unfreeze(bank_accounts, key)
    /\ result' = [op |-> "unfreeze", tok |-> None, out |-> "ok", ret |-> None]
    /\ UNCHANGED <<bank_clients, associated_clients, access_attempts, auth_token>>

\* the account is saved and loaded again: the object decoded from its
\* dictionary takes the place of the account, unless decoding raises
Reload(key) ==
    /\ key \in DOMAIN bank_accounts
    /\ LET d == from_dict(to_dict(bank_accounts[key]))
       IN /\ bank_accounts' = IF d.err = "ok"
                               THEN [bank_accounts EXCEPT ![key] =
                                        CHOOSE a \in d.account : TRUE]
                               ELSE bank_accounts
          /\ result' = [op |-> "from_dict", tok |-> None, out |-> d.err, ret |-> None]
    /\ UNCHANGED <<bank_clients, associated_clients, access_attempts, auth_token>>

Next ==
    \/ \E c \in LoginCpfs, b \in Branches, n \in AccountNums : Authenticate(c, b, n)
    \/ \E t \in PresentableTokens, p \in Passwords : GetAccount(t, p)
    \/ \E t \in PresentableTokens, p \in Passwords : CloseAccount(t, p)
    \/ \E t \in PresentableTokens, i \in Identities, p \in Passwords :
          UnfreezeAccount(t, i[1], i[2], p)
    \/ \E c \in NewClients, a \in NewAccounts, p \in Passwords : AggNewClient(c, a, p)
    \/ \E c \in Cpfs, a \in NewAccounts, p \in Passwords : AggNewAccount(c, a, p)

Spec == Init /\ [][Next]_vars

\* one client at the bank's own branch, who also deposits and withdraws
TxIdentities == {<<NameAna, BirthAna>>, <<NameBob, BirthAna>>}
TxClients == {c \in NewClients : c.client_cpf \in LoginCpfs}
TxAccounts == {a \in NewAccounts : a.branch_code = HomeBranch}

NextTx ==
    \/ \E c \in LoginCpfs, n \in AccountNums : Authenticate(c, HomeBranch, n)
    \/ \E t \in auth_token, p \in WellFormedPasswords : GetAccount(t, p)
    \/ \E t \in auth_token, p \in WellFormedPasswords : CloseAccount(t, p)
    \/ \E t \in auth_token, i \in TxIdentities, p \in WellFormedPasswords :
          UnfreezeAccount(t, i[1], i[2], p)
    \/ \E c \in TxClients, a \in TxAccounts, p \in WellFormedPasswords :
          AggNewClient(c, a, p)
    \/ \E c \in LoginCpfs, a \in TxAccounts, p \in WellFormedPasswords :
          AggNewAccount(c, a, p)
    \/ \E k \in AccountKeys, v \in Amounts : Deposit(k, v)
    \/ \E k \in AccountKeys, v \in Amounts : Withdraw(k, v)

SpecTx == Init /\ [][NextTx]_vars

\* one client at the bank's own branch who keeps the tokens of its accounts
\* and presents them in any order
NextTokens ==
    \/ \E c \in LoginCpfs, n \in AccountNums : AuthenticateKeeping(c, HomeBranch, n)
    \/ \E t \in auth_token, p \in WellFormedPasswords : GetAccount(t, p)
    \/ \E t \in auth_token, i \in TxIdentities, p \in WellFormedPasswords :
          UnfreezeAccount(t, i[1], i[2], p)
    \/ \E c \in TxClients, a \in TxAccounts, p \in WellFormedPasswords :
          AggNewClient(c, a, p)
    \/ \E c \in LoginCpfs, a \in TxAccounts, p \in WellFormedPasswords :
          AggNewAccount(c, a, p)

SpecTokens == Init /\ [][NextTokens]_vars

\* one account, opened by a client and then driven through the methods of
\* its class: deposits, withdrawals, withdrawal checks, freezing, unfreezing,
\* saving and loading
AcctAccounts == {NewAccount(k[1], k[2], OpeningBalance(k), KindOf(k)) : k \in AcctKeys}
AcctPasswords == {p \in WellFormedPasswords : p[1] = "1"}

\* what the account lets a caller withdraw, as the caller computes it
Available(key) ==
    IF bank_accounts[key].kind = "CheckingAccount"
    THEN bank_accounts[key].balance + CREDIT_LIMIT
    ELSE bank_accounts[key].balance

\* the amounts a caller tries on the account: the fixed ones, all that is
\* available, 0.01 and 1.00 more than that, and what brings the balance to 0
AcctAmounts(key) ==
    FixedAmounts \cup {Available(key), Available(key) + 1, Available(key) + 100,
                       -bank_accounts[key].balance}

NextAcct ==
    \/ \E c \in TxClients, a \in AcctAccounts, p \in AcctPasswords : AggNewClient(c, a, p)
    \/ \E k \in DOMAIN bank_accounts : \E v \in AcctAmounts(k) : Deposit(k, v)
    \/ \E k \in DOMAIN bank_accounts : \E v \in AcctAmounts(k) : Withdraw(k, v)
    \/ \E k \in DOMAIN bank_accounts : \E v \in AcctAmounts(k) : CheckWithdrawal(k, v)
    \/ \E k \in AcctKeys : Freeze(k)
    \/ \E k \in AcctKeys : Unfreeze(k)
    \/ \E k \in AcctKeys : Reload(k)

SpecAcct == Init /\ [][NextAcct]_vars

----------------------------------------------------------------------------
(* The controllers: one logged-in session of BankSystemController and the  *)
(* TransactionController it starts.  result is the controller's position:  *)
(* the last handler that ran and how it ended.                             *)

\* what _get_access makes of the outcome of Bank.get_account: the Account
\* is kept and True returned, AccountNotFoundError becomes False, a
\* BankSecurityError is re-raised as RuntimeError, anything else propagates
get_access(token, password) ==
    LET o == get_account(token, password)
    IN [o EXCEPT !.out = CASE o.out = "Account" -> "True"
                           [] o.out = "AccountNotFoundError" -> "False"
                           [] o.out = "BankSecurityError" -> "RuntimeError"
                           [] OTHER -> o.out]

\* no handler of TransactionController.run_controller, _session,
\* BankSystemController.run_controller or main catches RuntimeError: the
\* interpreter ends with a traceback
Crashed == result.op = "_get_access" /\ result.out = "RuntimeError"

\* the TransactionController holds the Account (accessed is True)
Accessed(token) ==
    /\ result.tok = {token}
    /\ \/ result.op = "_get_access" /\ result.out = "True"
       \/ result.op \in {"_handle_withdraw", "_handle_deposit"}

\* _login_loop runs only while no token is held; _get_credentials stores
\* whatever authenticate returned
Login(cpf, branch, num) ==
    /\ auth_token = None
    /\ Authenticate(cpf, branch, num)

\* UserAbortError in the session loop: the token is dropped
Logout ==
    /\ auth_token # None
    /\ auth_token' = None
    /\ result' = [op |-> "run_controller", tok |-> None,
                  out |-> "UserAbortError", ret |-> None]
    /\ UNCHANGED bankVars

\* one pass of _access_loop: the password prompt and get_account.  No path
\* assigns _auth_token: BlockedAccountError ends the TransactionController
\* and the session loop goes on, RuntimeError leaves every handler
GetAccess(token, password) ==
    /\ ~Accessed(token)
    /\ Bounded(get_access(token, password))
    /\ Commit("_get_access", Some(token), get_access(token, password))
    /\ UNCHANGED auth_token

\* the second menu of the transaction loop answered with 2: the
\* TransactionController returns, the session keeps its token
SelectOperation(token) ==
    /\ Accessed(token)
    /\ result' = [op |-> "_select_operation", tok |-> Some(token),
                  out |-> "None", ret |-> None]
    /\ UNCHANGED <<bankVars, auth_token>>

\* _authorize_withdraw with the answer to the overdraft prompt
\* (1 accepts, 2 declines) should the prompt appear
authorize_withdraw_unconfirmed(account, value, limit_option) ==
    check_withdrawal(account, value).authorized

authorize_withdraw(account, value, limit_option) ==
    LET info == check_withdrawal(account, value)
    IN IF ~info.authorized THEN FALSE
       ELSE IF info.uses_limit = Some(FALSE) THEN TRUE
       ELSE limit_option = 1

\* _handle_withdraw: withdraw only when _authorize_withdraw returned True
handle_withdraw(account, value, limit_option) ==
    IF authorize_withdraw(account, value, limit_option)
    THEN [out |-> IF withdraw(account, value).ok THEN "ok" ELSE "InvalidWithdrawError",
          account |-> withdraw(account, value).account]
    ELSE [out |-> "cancel", account |-> account]

\* the values the withdraw prompt accepts (its validator asks for >= 0.50)
CtlAmounts(key) == {v \in AcctAmounts(key) : verify_interval(v, MIN_VALUE, None)}

LimitOptions == {1, 2}

HandleWithdraw(token, value, limit_option) ==
    /\ Accessed(token)
    /\ Len(bank_accounts[target_key(token)].transactions) < MaxLog
    /\ bank_accounts' = [bank_accounts EXCEPT ![target_key(token)] =
                            handle_withdraw(@, value, limit_option).account]
    /\ result' = [op |-> "_handle_withdraw", tok |-> Some(token),
                  out |-> handle_withdraw(bank_accounts[target_key(token)],
                                          value, limit_option).out,
                  ret |-> Some(check_withdrawal(bank_accounts[target_key(token)], value))]
    /\ UNCHANGED <<bank_clients, associated_clients, access_attempts, auth_token>>

HandleDeposit(token, value) ==
    /\ Accessed(token)
    /\ Len(bank_accounts[target_key(token)].transactions) < MaxLog
    /\ bank_accounts' = [bank_accounts EXCEPT ![target_key(token)] =
                            deposit(@, value).account]
    /\ result' = [op |-> "_handle_deposit", tok |-> Some(token),
                  out |-> IF deposit(bank_accounts[target_key(token)], value).ok
                          THEN "ok" ELSE "InvalidDepositError",
                  ret |-> None]
    /\ UNCHANGED <<bank_clients, associated_clients, access_attempts, auth_token>>

\* the Bank is built first: BankSystemController(bank_instance) receives it
\* with its clients registered.  (A registration from the controller's own
\* menu does not come back: _try_register_loop catches BankMethodError only,
\* and the AttributeError of agg_new_client / agg_new_account ends the
\* process.)
Building == result.op \in {"init", "agg_new_client", "agg_new_account"}

\* the session loop then logs in and opens transactions until the process ends
NextCtl ==
    \/ \E c \in TxClients, a \in TxAccounts, p \in WellFormedPasswords :
          Building /\ AggNewClient(c, a, p)
    \/ \E c \in LoginCpfs, a \in TxAccounts, p \in WellFormedPasswords :
          Building /\ AggNewAccount(c, a, p)
    \/ \E c \in LoginCpfs, n \in AccountNums :
          ~Crashed /\ Login(c, HomeBranch, n)
    \/ ~Crashed /\ Logout
    \/ \E t \in auth_token, p \in WellFormedPasswords :
          ~Crashed /\ GetAccess(t, p)
    \/ \E t \in auth_token : ~Crashed /\ SelectOperation(t)
    \/ \E t \in auth_token :
          \E v \in CtlAmounts(target_key(t)), o \in LimitOptions :
             ~Crashed /\ HandleWithdraw(t, v, o)
    \/ \E t \in auth_token, v \in Amounts : ~Crashed /\ HandleDeposit(t, v)

SpecCtl == Init /\ [][NextCtl]_vars

----------------------------------------------------------------------------
(* Vocabulary of the properties *)

\* a client's failed-attempt counter; a client without an entry has none failed
Attempts(c) == IF c \in DOMAIN access_attempts THEN access_attempts[c] ELSE 0

\* the accounts a client has a password for
AccountsOf(c) ==
    IF c \in DOMAIN associated_clients
    THEN {associated_clients[c][p] : p \in DOMAIN associated_clients[c]}
    ELSE {}

\* the passwords a client has associated with some account
PasswordsOf(c) ==
    IF c \in DOMAIN associated_clients THEN DOMAIN associated_clients[c] ELSE {}

\* the association entries (client id, password) that lead to account key k
EntriesTo(k) ==
    {e \in Cpfs \X WellFormedPasswords :
        e[2] \in PasswordsOf(e[1]) /\ associated_clients[e[1]][e[2]] = k}

Registered(k) == k \in DOMAIN bank_accounts
IsActive(k) == Registered(k) /\ bank_accounts[k].is_active
IsFrozen(k) == Registered(k) /\ ~bank_accounts[k].is_active

\* the signed token the caller holds passes the integrity phase of get_account
Passes(t) == check_access(t) = "ok"

\* each account of a client is reached by one password only, so that the
\* password _reset_password finds first is the only one it can find
OnePasswordPerAccount ==
    \A c \in DOMAIN associated_clients : \A k \in AccountKeys :
        Cardinality(passwords_of(associated_clients[c], k)) <= 1

----------------------------------------------------------------------------
(* C1: for a registered client whose counter is 0 and one of its active    *)
(* accounts, three consecutive get_account calls with the same signed      *)
(* token and well-formed passwords the client has not associated raise     *)
(* AccountNotFoundError twice and then BlockedAccountError; the third call *)
(* freezes the account the token names and no other, and leaves the        *)
(* counter at 3.  Stated call by call: the n-th wrong password in a row    *)
(* (the counter tells n) does what the claim says and leaves the token,    *)
(* the associations and the other accounts as they were, so that the next  *)
(* call starts where the claim says it does.                               *)
C1_ThreeWrongPasswordsFreezeTarget ==
    [][\A t \in auth_token : \A p \in WellFormedPasswords :
        ( /\ GetAccount(t, p)
          /\ t.client_cpf \in DOMAIN bank_clients
          /\ target_key(t) \in AccountsOf(t.client_cpf)
          /\ IsActive(target_key(t))
          /\ p \notin PasswordsOf(t.client_cpf)
          /\ Attempts(t.client_cpf) \in {0, 1, 2} )
        => /\ auth_token' = auth_token
           /\ bank_clients' = bank_clients
           /\ associated_clients' = associated_clients
           /\ \A c \in Cpfs \ {t.client_cpf} : Attempts(c)' = Attempts(c)
           /\ Attempts(t.client_cpf)' = Attempts(t.client_cpf) + 1
           /\ result'.ret = None
           /\ IF Attempts(t.client_cpf) < 2
              THEN /\ result'.out = "AccountNotFoundError"
                   /\ bank_accounts' = bank_accounts
              ELSE /\ result'.out = "BlockedAccountError"
                   /\ Attempts(t.client_cpf)' = 3
                   /\ bank_accounts' =
                        [bank_accounts EXCEPT ![target_key(t)].is_active = FALSE]
    ]_vars

\* the third wrong password has frozen the account of the token, and another
\* account of the same client is still active
C1_Witness ==
    \E t \in auth_token :
        /\ result.op = "get_account" /\ result.tok = {t}
        /\ result.out = "BlockedAccountError"
        /\ Attempts(t.client_cpf) = 3
        /\ target_key(t) \in AccountsOf(t.client_cpf)
        /\ IsFrozen(target_key(t))
        /\ \E k \in AccountsOf(t.client_cpf) \ {target_key(t)} : IsActive(k)

----------------------------------------------------------------------------
(* C2: in every reachable state each account of the account registry is    *)
(* the target of exactly one (client id, password) entry of the            *)
(* association map, counted over all clients.                              *)
C2_OneEntryPerAccount ==
    \A k \in DOMAIN bank_accounts : Cardinality(EntriesTo(k)) = 1

----------------------------------------------------------------------------
(* C3: get_account, close_account and unfreeze_account, presented a token  *)
(* whose signature flag is false, raise BankSecurityError whatever the     *)
(* other arguments are, and leave the registries, the associations, the    *)
(* counters and the active flags unchanged.                                *)
C3_UnsignedTokenRejected ==
    [][\A t \in ForgedTokens :
        ( \/ \E p \in Passwords : GetAccount(t, p)
          \/ \E p \in Passwords : CloseAccount(t, p)
          \/ \E i \in Identities, p \in Passwords :
                UnfreezeAccount(t, i[1], i[2], p) )
        => /\ result'.out = "BankSecurityError"
           /\ UNCHANGED bankVars
    ]_vars

----------------------------------------------------------------------------
(* C4: authenticate(client id, branch, account number) returns a signed    *)
(* token carrying exactly that triple if and only if the branch is the     *)
(* bank's own branch, the client id is in the client registry and          *)
(* (branch, account number) is in the account registry; otherwise it       *)
(* returns None.  Checked for every triple in every reachable state of the *)
(* registries, and on what the last call of authenticate handed out.       *)
C4_AuthenticateIff ==
    /\ \A c \in Cpfs, b \in Branches, n \in AccountNums :
          authenticate(c, b, n) =
             IF b = HomeBranch /\ c \in DOMAIN bank_clients
                               /\ <<b, n>> \in DOMAIN bank_accounts
             THEN {[client_cpf |-> c, branch_code |-> b, account_num |-> n,
                    signature |-> TRUE]}
             ELSE {}
    /\ result.op = "authenticate" =>
          /\ result.ret = auth_token
          /\ result.out = (IF auth_token = {} THEN "None" ELSE "AuthToken")
          /\ \A t \in auth_token :
                /\ t.signature
                /\ t.branch_code = HomeBranch
                /\ t.client_cpf \in DOMAIN bank_clients
                /\ target_key(t) \in DOMAIN bank_accounts

\* authenticate has issued a token while an account of another branch is
\* registered too
C4_Witness ==
    /\ result.op = "authenticate" /\ result.out = "AuthToken"
    /\ auth_token # {}
    /\ \E k \in DOMAIN bank_accounts : k[1] # HomeBranch

----------------------------------------------------------------------------
(* C5: a call of authenticate, successful or not, leaves the client        *)
(* registry, the account registry (every active flag with it), the         *)
(* association map and the failed-attempt counters as they were.           *)
C5_AuthenticateChangesNothing ==
    [][(\E c \in Cpfs, b \in Branches, n \in AccountNums : Authenticate(c, b, n))
        => UNCHANGED bankVars]_vars

\* authenticate has refused a client that is one wrong password away from
\* the lockout, and the counter is still where it was
C5_Witness ==
    /\ result.op = "authenticate" /\ result.out = "None"
    /\ \E c \in DOMAIN bank_clients :
          /\ Attempts(c) = MAX_ATTEMPTS - 1
          /\ \A k \in AccountsOf(c) : IsActive(k)

----------------------------------------------------------------------------
(* C6: get_account with a signed token that names a frozen account raises  *)
(* BlockedAccountError for every password, the correct one included,       *)
(* returns no account and leaves the failed-attempt counters (and the rest *)
(* of the bank) unchanged.                                                 *)
C6_FrozenAccountIsBlocked ==
    [][\A t \in auth_token : \A p \in Passwords :
        (GetAccount(t, p) /\ t.signature /\ IsFrozen(target_key(t)))
        => /\ result'.out = "BlockedAccountError"
           /\ result'.ret = None
           /\ UNCHANGED bankVars
    ]_vars

\* the token of an account frozen earlier was presented when the client's
\* counter was below the limit: the call was refused, the counter is as low
C6_Witness ==
    \E t \in auth_token :
        /\ result.op = "get_account" /\ result.tok = {t}
        /\ result.out = "BlockedAccountError"
        /\ IsFrozen(target_key(t))
        /\ target_key(t) \in AccountsOf(t.client_cpf)
        /\ Attempts(t.client_cpf) < MAX_ATTEMPTS

----------------------------------------------------------------------------
(* C7: get_account with a signed token for an active account and the       *)
(* password the token's client has associated with that account returns    *)
(* the account stored under the token's (branch, account number) and sets  *)
(* the client's counter to 0, changing nothing else; and a wrong password  *)
(* presented when the counter is 0 or 1 freezes nothing, so that two wrong *)
(* passwords after a correct one do not freeze the account.                *)
C7_CorrectPasswordResetsCounter ==
    [][\A t \in auth_token : \A p \in WellFormedPasswords :
        (GetAccount(t, p) /\ t.signature /\ IsActive(target_key(t))
                          /\ t.client_cpf \in DOMAIN associated_clients)
        => /\ ( /\ p \in PasswordsOf(t.client_cpf)
                /\ associated_clients[t.client_cpf][p] = target_key(t) )
              => /\ result'.out = "Account"
                 /\ result'.ret = {target_key(t)}
                 /\ Attempts(t.client_cpf)' = 0
                 /\ t.client_cpf \in DOMAIN access_attempts'
                 /\ \A c \in Cpfs \ {t.client_cpf} : Attempts(c)' = Attempts(c)
                 /\ UNCHANGED <<bank_clients, bank_accounts, associated_clients>>
           /\ ( /\ p \notin PasswordsOf(t.client_cpf)
                /\ Attempts(t.client_cpf) \in {0, 1} )
              => /\ result'.out = "AccountNotFoundError"
                 /\ Attempts(t.client_cpf)' = Attempts(t.client_cpf) + 1
                 /\ UNCHANGED <<bank_clients, bank_accounts, associated_clients>>
    ]_vars

\* the account was returned and the counter is 0
C7_Witness ==
    \E t \in auth_token :
        /\ result.op = "get_account" /\ result.tok = {t}
        /\ result.out = "Account"
        /\ result.ret = {target_key(t)}
        /\ IsActive(target_key(t))
        /\ t.client_cpf \in DOMAIN access_attempts
        /\ access_attempts[t.client_cpf] = 0

----------------------------------------------------------------------------
(* C8: get_account with a signed token that names a registered, active     *)
(* account, and a password that the token's client has associated with an  *)
(* account other than the one the token names, raises BankSecurityError,   *)
(* returns no account, does not increment the failed-attempt counter and   *)
(* freezes nothing.                                                        *)
C8_CrossAccountPasswordRejected ==
    [][\A t \in auth_token : \A p \in WellFormedPasswords :
        ( /\ GetAccount(t, p)
          /\ t.signature
          /\ IsActive(target_key(t))
          /\ p \in PasswordsOf(t.client_cpf)
          /\ associated_clients[t.client_cpf][p] # target_key(t) )
        => /\ result'.out = "BankSecurityError"
           /\ result'.ret = None
           /\ \A c \in Cpfs : Attempts(c)' = Attempts(c)
           /\ UNCHANGED <<bank_clients, bank_accounts, associated_clients>>
    ]_vars

(* C8 as the specification states it, for any account the token names: the *)
(* password of another account of the client gets BankSecurityError, no    *)
(* account, no increment of the counter and no freeze.                     *)
C8_AsStated ==
    [][\A t \in auth_token : \A p \in WellFormedPasswords :
        ( /\ GetAccount(t, p)
          /\ t.signature
          /\ p \in PasswordsOf(t.client_cpf)
          /\ associated_clients[t.client_cpf][p] # target_key(t) )
        => /\ result'.out = "BankSecurityError"
           /\ result'.ret = None
           /\ \A c \in Cpfs : Attempts(c)' = Attempts(c)
           /\ UNCHANGED <<bank_clients, bank_accounts, associated_clients>>
    ]_vars

\* the held token was refused with BankSecurityError while its account is
\* active and the client has a password for another account
C8_Witness ==
    \E t \in auth_token :
        /\ result.op = "get_account" /\ result.tok = {t}
        /\ result.out = "BankSecurityError"
        /\ IsActive(target_key(t))
        /\ \E p \in PasswordsOf(t.client_cpf) :
              associated_clients[t.client_cpf][p] # target_key(t)

----------------------------------------------------------------------------
(* C9: once close_account was called with a signed token, the password of  *)
(* the token's account and a zero balance (the call that closes the        *)
(* account), get_account with the same token raises RuntimeError for every *)
(* password, returns no account and changes no counter and no registry.    *)
C9_TokenOfClosedAccountRejected ==
    [][\A t \in auth_token : \A p \in WellFormedPasswords :
        ( /\ CloseAccount(t, p)
          /\ Passes(t)
          /\ p \in PasswordsOf(t.client_cpf)
          /\ associated_clients[t.client_cpf][p] = target_key(t)
          /\ bank_accounts[target_key(t)].balance = 0 )
        => \A q \in Passwords :
              ( /\ get_account(t, q).out = "RuntimeError"
                /\ get_account(t, q).ret = None
                /\ get_account(t, q).attempts = access_attempts
                /\ get_account(t, q).accounts = bank_accounts
                /\ get_account(t, q).clients = bank_clients
                /\ get_account(t, q).assoc = associated_clients )'
    ]_vars

----------------------------------------------------------------------------
(* C10: in every reachable state the client registry and the association   *)
(* map have the same set of client ids, no client's association map is     *)
(* empty, and every association entry points to a key that is present in   *)
(* the account registry.                                                   *)
C10_RegistriesAgree ==
    /\ DOMAIN bank_clients = DOMAIN associated_clients
    /\ \A c \in DOMAIN associated_clients :
          /\ DOMAIN associated_clients[c] # {}
          /\ \A p \in DOMAIN associated_clients[c] :
                associated_clients[c][p] \in DOMAIN bank_accounts

\* both clients are registered, one of them with two accounts, and a call
\* of close_account with the right password on an empty account has returned
C10_Witness ==
    /\ DOMAIN bank_clients = Cpfs
    /\ \E c \in Cpfs : Cardinality(AccountsOf(c)) = 2
    /\ result.op = "close_account" /\ result.out = "AttributeError"

----------------------------------------------------------------------------
(* C11: whenever agg_new_client or agg_new_account ends with an error, the *)
(* client registry (each client's saved cards with it), the account        *)
(* registry and the association map are exactly what they were before the  *)
(* call.                                                                   *)
C11_RegistrationAllOrNothing ==
    [][( /\ \/ \E c \in NewClients, a \in NewAccounts, p \in Passwords :
                  AggNewClient(c, a, p)
            \/ \E c \in Cpfs, a \in NewAccounts, p \in Passwords :
                  AggNewAccount(c, a, p)
         /\ result'.out # "ok" )
        => UNCHANGED <<bank_clients, bank_accounts, associated_clients>>
    ]_vars

----------------------------------------------------------------------------
(* C12: agg_new_client with an unregistered client, and agg_new_account    *)
(* with a registered client, called with an account that is not registered *)
(* and a well-formed password the client does not use, complete without    *)
(* error; afterwards the client and the account are in their registries,   *)
(* the client's association map leads from the password to the account's   *)
(* key and the client's cards contain (client id, branch, account number). *)
C12_RegistrationStoresEverything ==
    [][\A a \in NewAccounts, p \in WellFormedPasswords :
        /\ \A c \in NewClients :
              ( /\ AggNewClient(c, a, p)
                /\ c.client_cpf \notin DOMAIN bank_clients
                /\ extract_account_key(a) \notin DOMAIN bank_accounts
                /\ p \notin PasswordsOf(c.client_cpf) )
              => /\ result'.out = "ok"
                 /\ c.client_cpf \in DOMAIN bank_clients'
                 /\ bank_accounts'[extract_account_key(a)] = a
                 /\ associated_clients'[c.client_cpf][p] = extract_account_key(a)
                 /\ issue_card(c.client_cpf, a.branch_code, a.account_num)
                        \in bank_clients'[c.client_cpf].account_cards
        /\ \A cpf \in Cpfs :
              ( /\ AggNewAccount(cpf, a, p)
                /\ cpf \in DOMAIN bank_clients
                /\ extract_account_key(a) \notin DOMAIN bank_accounts
                /\ p \notin PasswordsOf(cpf) )
              => /\ result'.out = "ok"
                 /\ cpf \in DOMAIN bank_clients'
                 /\ bank_accounts'[extract_account_key(a)] = a
                 /\ associated_clients'[cpf][p] = extract_account_key(a)
                 /\ issue_card(cpf, a.branch_code, a.account_num)
                        \in bank_clients'[cpf].account_cards
    ]_vars

----------------------------------------------------------------------------
(* C13: a registration with a password the same client already uses for    *)
(* another account is rejected with BankPasswordError and changes nothing, *)
(* while a registration with a password that only a different client uses  *)
(* is accepted: it completes and the client's map leads from the password  *)
(* to the new account.                                                     *)
C13_PasswordUniquePerClient ==
    [][\A a \in NewAccounts, p \in WellFormedPasswords :
        /\ \A cpf \in Cpfs :
              ( /\ AggNewAccount(cpf, a, p)
                /\ cpf \in DOMAIN bank_clients
                /\ extract_account_key(a) \notin DOMAIN bank_accounts
                /\ p \in PasswordsOf(cpf) )
              => /\ result'.out = "BankPasswordError"
                 /\ UNCHANGED bankVars
        /\ \A c \in NewClients :
              ( /\ AggNewClient(c, a, p)
                /\ c.client_cpf \notin DOMAIN bank_clients
                /\ extract_account_key(a) \notin DOMAIN bank_accounts
                /\ \E other \in Cpfs \ {c.client_cpf} : p \in PasswordsOf(other) )
              => /\ result'.out = "ok"
                 /\ associated_clients'[c.client_cpf][p] = extract_account_key(a)
    ]_vars

----------------------------------------------------------------------------
(* C14: unfreeze_account on an account that is active raises               *)
(* AccountAlreadyActiveError, whatever name, birth date and new password   *)
(* were supplied, and has no side effects: the associations, the active    *)
(* flags and the failed-attempt counters are unchanged.                    *)
C14_UnfreezeActiveAccountFailsFast ==
    [][\A t \in PresentableTokens :
        ( /\ result'.op = "unfreeze_account" /\ result'.tok = {t}
          /\ IsActive(target_key(t))
          /\ \E i \in Identities, p \in Passwords : UnfreezeAccount(t, i[1], i[2], p) )
        => /\ result'.out = "AccountAlreadyActiveError"
           /\ UNCHANGED bankVars
    ]_vars

\* unfreeze_account has refused the held token, whose account is active,
\* and the client's counter still shows the wrong passwords counted before
C14_Witness ==
    \E t \in auth_token :
        /\ result.op = "unfreeze_account" /\ result.tok = {t}
        /\ result.out = "AccountAlreadyActiveError"
        /\ IsActive(target_key(t))
        /\ target_key(t) \in AccountsOf(t.client_cpf)
        /\ Attempts(t.client_cpf) = MAX_ATTEMPTS - 1

----------------------------------------------------------------------------
(* C15: unfreeze_account on a frozen account with a well-formed name, a    *)
(* well-formed birth date and a well-formed new password, where name and   *)
(* birth date do not both match the stored client, returns False whether   *)
(* the name, the birth date or both are wrong, and leaves the account      *)
(* frozen, the associations and the failed-attempt counters unchanged.     *)
C15_MismatchReturnsFalse ==
    [][\A t \in PresentableTokens :
        ( /\ result'.op = "unfreeze_account" /\ result'.tok = {t}
          /\ t.client_cpf \in DOMAIN bank_clients
          /\ IsFrozen(target_key(t))
          /\ \E i \in Identities, p \in WellFormedPasswords :
                /\ validate_name(i[1]) /\ validate_birth_date(i[2])
                /\ i # <<bank_clients[t.client_cpf].name,
                         bank_clients[t.client_cpf].birth_date>>
                /\ UnfreezeAccount(t, i[1], i[2], p) )
        => /\ result'.out = "False"
           /\ UNCHANGED bankVars
    ]_vars

(* C15 as the specification states it, for any new password: a well-formed *)
(* name and birth date that do not both match get False and no change.     *)
C15_AsStated ==
    [][\A t \in PresentableTokens :
        ( /\ result'.op = "unfreeze_account" /\ result'.tok = {t}
          /\ t.client_cpf \in DOMAIN bank_clients
          /\ IsFrozen(target_key(t))
          /\ \E i \in Identities, p \in Passwords :
                /\ validate_name(i[1]) /\ validate_birth_date(i[2])
                /\ i # <<bank_clients[t.client_cpf].name,
                         bank_clients[t.client_cpf].birth_date>>
                /\ UnfreezeAccount(t, i[1], i[2], p) )
        => /\ result'.out = "False"
           /\ UNCHANGED bankVars
    ]_vars

\* unfreeze_account has returned False for the held token, and the account,
\* one of the client's own, is still frozen
C15_Witness ==
    \E t \in auth_token :
        /\ result.op = "unfreeze_account" /\ result.tok = {t}
        /\ result.out = "False"
        /\ IsFrozen(target_key(t))
        /\ target_key(t) \in AccountsOf(t.client_cpf)
        /\ Attempts(t.client_cpf) = MAX_ATTEMPTS

----------------------------------------------------------------------------
(* C16: unfreeze_account on a frozen account with the stored name and      *)
(* birth date and a well-formed new password returns True; afterwards the  *)
(* account is active, the client's counter is 0, the password that led to  *)
(* the account no longer does (in any client's map), the new password      *)
(* leads to it, the client's other associations are unchanged, and         *)
(* get_account with the new password returns the account.                  *)
C16_UnfreezeResetsPassword ==
    [][\A t \in auth_token, p \in WellFormedPasswords :
        ( /\ t.client_cpf \in DOMAIN bank_clients
          /\ IsFrozen(target_key(t))
          /\ UnfreezeAccount(t, bank_clients[t.client_cpf].name,
                             bank_clients[t.client_cpf].birth_date, p) )
        => /\ result'.out = "True"
           /\ IsActive(target_key(t))'
           /\ Attempts(t.client_cpf)' = 0
           /\ \A e \in EntriesTo(target_key(t)) :
                 e[2] # p => e \notin EntriesTo(target_key(t))'
           /\ associated_clients'[t.client_cpf][p] = target_key(t)
           /\ \A q \in PasswordsOf(t.client_cpf) :
                 associated_clients[t.client_cpf][q] # target_key(t)
                 => /\ q \in PasswordsOf(t.client_cpf)'
                    /\ associated_clients'[t.client_cpf][q] =
                          associated_clients[t.client_cpf][q]
           /\ (get_account(t, p).out = "Account")'
    ]_vars

----------------------------------------------------------------------------
(* C17: an account that is frozen is not active after any call, unless the *)
(* call is an unfreeze_account for that account that returned True: no     *)
(* authenticate, get_account, deposit, withdraw, registration or           *)
(* close_account reactivates it.                                           *)
C17_FreezingIsOneWay ==
    [][\A k \in DOMAIN bank_accounts :
        IsFrozen(k)
        => \/ ~IsActive(k)'
           \/ /\ result'.op = "unfreeze_account"
              /\ result'.out = "True"
              /\ \E t \in result'.tok : target_key(t) = k
    ]_vars

\* a deposit was accepted while every account of the registry is frozen
C17_Witness ==
    /\ result.op = "deposit" /\ result.out = "ok"
    /\ DOMAIN bank_accounts # {}
    /\ \A k \in DOMAIN bank_accounts : IsFrozen(k)

----------------------------------------------------------------------------
(* C18: close_account with a token that passes the integrity checks and    *)
(* the password of the token's account raises NotEmptyAccountError         *)
(* whenever the balance is not exactly zero, positive or negative, and     *)
(* removes nothing: the account registry, the association map and the      *)
(* client registry (the clients' cards with it) are unchanged.             *)
C18_NonZeroBalanceNotClosed ==
    [][\A t \in auth_token :
        ( /\ result'.op = "close_account" /\ result'.tok = {t}
          /\ Passes(t)
          /\ bank_accounts[target_key(t)].balance # 0
          /\ \E p \in PasswordsOf(t.client_cpf) :
                /\ associated_clients[t.client_cpf][p] = target_key(t)
                /\ CloseAccount(t, p) )
        => /\ result'.out = "NotEmptyAccountError"
           /\ UNCHANGED <<bank_clients, bank_accounts, associated_clients>>
    ]_vars

\* close_account has refused to close the overdrawn account of the token
C18_Witness ==
    \E t \in auth_token :
        /\ result.op = "close_account" /\ result.tok = {t}
        /\ result.out = "NotEmptyAccountError"
        /\ target_key(t) \in AccountsOf(t.client_cpf)
        /\ bank_accounts[target_key(t)].balance < 0

----------------------------------------------------------------------------
(* C19: close_account with a token that passes the integrity checks, the   *)
(* password of the token's account and a zero balance completes without    *)
(* error and removes exactly that account: it is gone from the account     *)
(* registry, from the client's cards and from the association map, while   *)
(* the other accounts, and the client's other passwords and cards, are     *)
(* unchanged.                                                              *)
C19_CloseRemovesTheAccount ==
    [][\A t \in auth_token :
        ( /\ result'.op = "close_account" /\ result'.tok = {t}
          /\ Passes(t)
          /\ bank_accounts[target_key(t)].balance = 0
          /\ \E p \in PasswordsOf(t.client_cpf) :
                /\ associated_clients[t.client_cpf][p] = target_key(t)
                /\ CloseAccount(t, p) )
        => /\ result'.out = "ok"
           /\ target_key(t) \notin DOMAIN bank_accounts'
           /\ EntriesTo(target_key(t))' = {}
           /\ \A c \in DOMAIN bank_clients' :
                 issue_card(t.client_cpf, t.branch_code, t.account_num)
                    \notin bank_clients'[c].account_cards
           /\ \A k \in DOMAIN bank_accounts \ {target_key(t)} :
                 /\ k \in DOMAIN bank_accounts'
                 /\ bank_accounts'[k] = bank_accounts[k]
                 /\ EntriesTo(k)' = EntriesTo(k)
           /\ AccountsOf(t.client_cpf) # {target_key(t)}
                 => t.client_cpf \in DOMAIN bank_clients'
    ]_vars

----------------------------------------------------------------------------
(* C20: after close_account was called with the password of the client's   *)
(* last account, at zero balance, every lookup for that client id fails:   *)
(* get_client raises ClientNotFoundError, authenticate with that id        *)
(* returns None and agg_new_account for that id raises                     *)
(* ClientNotFoundError.                                                    *)
C20_ClosedClientIsGone ==
    [][\A t \in auth_token :
        ( /\ result'.op = "close_account" /\ result'.tok = {t}
          /\ Passes(t)
          /\ bank_accounts[target_key(t)].balance = 0
          /\ AccountsOf(t.client_cpf) = {target_key(t)}
          /\ \E p \in PasswordsOf(t.client_cpf) : CloseAccount(t, p) )
        => ( /\ get_client(t.client_cpf) = "ClientNotFoundError"
             /\ \A b \in Branches, n \in AccountNums :
                   authenticate(t.client_cpf, b, n) = None
             /\ \A a \in NewAccounts, p \in WellFormedPasswords :
                   agg_new_account(t.client_cpf, a, p).out = "ClientNotFoundError" )'
    ]_vars

----------------------------------------------------------------------------
(* C21: close_account goes through the gate of get_account.  With a token  *)
(* that passes the integrity checks, a well-formed password the client has *)
(* not associated adds 1 to the client's counter; below the third it       *)
(* raises AccountNotFoundError and touches no account, and the third       *)
(* freezes the account the token names, and no other, with                 *)
(* BlockedAccountError.  With a signed token of a registered client whose  *)
(* account is frozen it raises BlockedAccountError and changes nothing.    *)
(* And whenever it ends with an error, every account, client, association  *)
(* entry and card that was there is still there.                           *)
C21_CloseAccountIsGated ==
    [][\A t \in auth_token :
        (result'.op = "close_account" /\ result'.tok = {t})
        => /\ ( /\ Passes(t)
                /\ Attempts(t.client_cpf) \in {0, 1, 2}
                /\ \E p \in WellFormedPasswords \ PasswordsOf(t.client_cpf) :
                      CloseAccount(t, p) )
              => /\ Attempts(t.client_cpf)' = Attempts(t.client_cpf) + 1
                 /\ IF Attempts(t.client_cpf) < 2
                    THEN /\ result'.out = "AccountNotFoundError"
                         /\ bank_accounts' = bank_accounts
                    ELSE /\ result'.out = "BlockedAccountError"
                         /\ bank_accounts' =
                              [bank_accounts EXCEPT ![target_key(t)].is_active = FALSE]
           /\ ( /\ t.client_cpf \in DOMAIN associated_clients
                /\ IsFrozen(target_key(t)) )
              => /\ result'.out = "BlockedAccountError"
                 /\ UNCHANGED bankVars
           /\ result'.out # "ok"
              => /\ DOMAIN bank_accounts \subseteq DOMAIN bank_accounts'
                 /\ \A c \in DOMAIN bank_clients :
                       /\ c \in DOMAIN bank_clients'
                       /\ bank_clients[c].account_cards
                             \subseteq bank_clients'[c].account_cards
                 /\ \A c \in DOMAIN associated_clients :
                       /\ c \in DOMAIN associated_clients'
                       /\ \A p \in DOMAIN associated_clients[c] :
                             /\ p \in DOMAIN associated_clients'[c]
                             /\ associated_clients'[c][p] = associated_clients[c][p]
    ]_vars

\* the third wrong password given to close_account has frozen the account
\* of the token, which was never given to get_account
C21_Witness ==
    \E t \in auth_token :
        /\ result.op = "close_account" /\ result.tok = {t}
        /\ result.out = "BlockedAccountError"
        /\ Attempts(t.client_cpf) = 3
        /\ IsFrozen(target_key(t))

----------------------------------------------------------------------------
(* C22: the failed-attempt counters hold entries only for client ids of    *)
(* the client registry, and once close_account was called with the         *)
(* password of the client's last account, at zero balance, the client id   *)
(* has no counter left.                                                    *)
C22_CountersOnlyForClients ==
    [][\A t \in auth_token :
        ( /\ result'.op = "close_account" /\ result'.tok = {t}
          /\ Passes(t)
          /\ bank_accounts[target_key(t)].balance = 0
          /\ AccountsOf(t.client_cpf) = {target_key(t)}
          /\ \E p \in PasswordsOf(t.client_cpf) : CloseAccount(t, p) )
        => /\ t.client_cpf \notin DOMAIN access_attempts'
           /\ DOMAIN access_attempts' \subseteq DOMAIN bank_clients'
    ]_vars

----------------------------------------------------------------------------
(* C23: withdraw(value) succeeds exactly when 0.5 <= value <= available,   *)
(* where available is the balance of a savings account and balance +       *)
(* credit line of a checking account, negative balance included.  On       *)
(* success the balance goes down by value and -value is appended to the    *)
(* transactions; otherwise InvalidWithdrawError is raised and balance,     *)
(* transactions and used credit are as before.                             *)
C23_WithdrawIffAvailable ==
    [][result'.op = "withdraw"
       => \A k \in DOMAIN bank_accounts : \A v \in AcctAmounts(k) :
            Withdraw(k, v)
            => LET a == bank_accounts[k]
                   available == IF a.kind = "SavingsAccount" THEN a.balance
                                ELSE a.balance + CREDIT_LIMIT
               IN IF MIN_VALUE <= v /\ v <= available
                  THEN /\ result'.out = "ok"
                       /\ bank_accounts'[k].balance = a.balance - v
                       /\ bank_accounts'[k].transactions = Append(a.transactions, -v)
                  ELSE /\ result'.out = "InvalidWithdrawError"
                       /\ bank_accounts'[k] = a
    ]_vars

\* a checking account opened empty has let two withdrawals through, the
\* second one from a negative balance
C23_Witness ==
    /\ result.op = "withdraw" /\ result.out = "ok"
    /\ \E k \in DOMAIN bank_accounts :
          /\ bank_accounts[k].kind = "CheckingAccount"
          /\ Len(bank_accounts[k].transactions) = 2
          /\ bank_accounts[k].transactions[1] < 0
          /\ bank_accounts[k].transactions[2] < 0

----------------------------------------------------------------------------
(* C24: deposit(value) with value >= 0.5 adds exactly value to the balance *)
(* and appends exactly one entry, +value, to the transactions; with a      *)
(* smaller value it raises InvalidDepositError and leaves balance,         *)
(* transactions and used credit as they were.                              *)
C24_DepositAtLeastMinimum ==
    [][result'.op = "deposit"
       => \A k \in DOMAIN bank_accounts : \A v \in AcctAmounts(k) :
            Deposit(k, v)
            => LET a == bank_accounts[k]
               IN IF v >= MIN_VALUE
                  THEN /\ result'.out = "ok"
                       /\ bank_accounts'[k].balance = a.balance + v
                       /\ bank_accounts'[k].transactions = Append(a.transactions, v)
                  ELSE /\ result'.out = "InvalidDepositError"
                       /\ bank_accounts'[k] = a
    ]_vars

\* a deposit of exactly 0.50 was accepted, by an overdrawn checking account
C24_Witness ==
    /\ result.op = "deposit" /\ result.out = "ok"
    /\ \E k \in DOMAIN bank_accounts :
          /\ bank_accounts[k].kind = "CheckingAccount"
          /\ bank_accounts[k].balance < 0
          /\ Len(bank_accounts[k].transactions) = 2
          /\ bank_accounts[k].transactions[2] = MIN_VALUE

----------------------------------------------------------------------------
(* C25: a checking account, whatever it was opened with and whatever       *)
(* deposits and withdrawals it was asked for, accepted or refused, has     *)
(* used_credit = max(0, -balance), 0 <= used_credit <= credit line and a   *)
(* balance that is not below minus the credit line.                        *)
C25_UsedCreditFollowsBalance ==
    \A k \in DOMAIN bank_accounts :
        bank_accounts[k].kind = "CheckingAccount"
        => LET a == bank_accounts[k]
           IN /\ a.used_credit = IF -a.balance > 0 THEN -a.balance ELSE 0
              /\ 0 <= a.used_credit /\ a.used_credit <= CREDIT_LIMIT
              /\ a.balance >= -CREDIT_LIMIT

\* a checking account went into its credit line and a deposit brought it
\* out again
C25_Witness ==
    /\ result.op = "deposit" /\ result.out = "ok"
    /\ \E k \in DOMAIN bank_accounts :
          /\ bank_accounts[k].kind = "CheckingAccount"
          /\ Len(bank_accounts[k].transactions) = 2
          /\ bank_accounts[k].transactions[1] < 0
          /\ bank_accounts[k].balance > 0

----------------------------------------------------------------------------
(* C26: on a checking account, withdrawing exactly balance + credit line,  *)
(* when that is at least 0.5, succeeds and leaves used_credit equal to the *)
(* credit line; withdrawing 0.01 or 1.00 more than balance + credit line   *)
(* raises InvalidWithdrawError; and an accepted deposit that brings the    *)
(* balance to zero or above leaves used_credit at zero.                    *)
C26_CreditLineBoundary ==
    [][\A k \in DOMAIN bank_accounts :
        bank_accounts[k].kind = "CheckingAccount"
        => /\ ( /\ result'.op = "withdraw"
                /\ Available(k) >= MIN_VALUE
                /\ Withdraw(k, Available(k)) )
              => /\ result'.out = "ok"
                 /\ bank_accounts'[k].used_credit = CREDIT_LIMIT
           /\ ( /\ result'.op = "withdraw"
                /\ \E more \in {1, 100} : Withdraw(k, Available(k) + more) )
              => /\ result'.out = "InvalidWithdrawError"
                 /\ bank_accounts'[k] = bank_accounts[k]
           /\ ( /\ result'.op = "deposit" /\ result'.out = "ok"
                /\ \E v \in AcctAmounts(k) :
                      Deposit(k, v) /\ bank_accounts[k].balance + v >= 0 )
              => bank_accounts'[k].used_credit = 0
    ]_vars

(* C26 as the specification states it, whatever balance + credit line is:  *)
(* withdrawing exactly that amount succeeds and leaves used_credit equal   *)
(* to the credit line.                                                     *)
C26_AsStated ==
    [][\A k \in DOMAIN bank_accounts :
        ( /\ bank_accounts[k].kind = "CheckingAccount"
          /\ result'.op = "withdraw"
          /\ Withdraw(k, Available(k)) )
        => /\ result'.out = "ok"
           /\ bank_accounts'[k].used_credit = CREDIT_LIMIT
    ]_vars

\* a checking account opened with 1.00 was emptied down to the end of its
\* credit line in one withdrawal
C26_Witness ==
    /\ result.op = "withdraw" /\ result.out = "ok"
    /\ \E k \in DOMAIN bank_accounts :
          /\ bank_accounts[k].kind = "CheckingAccount"
          /\ bank_accounts[k].transactions = <<100, -(CREDIT_LIMIT + 100)>>
          /\ bank_accounts[k].used_credit = CREDIT_LIMIT

----------------------------------------------------------------------------
\* sum(account.get_statement)
RECURSIVE Sum(_)
Sum(s) == IF s = <<>> THEN 0 ELSE s[1] + Sum(Tail(s))

\* the earlier transactions are all still there, in their places
IsPrefix(s, t) == Len(s) <= Len(t) /\ SubSeq(t, 1, Len(s)) = s

(* C27: for every account, whatever it was opened with and whatever        *)
(* deposits and withdrawals it was asked for, accepted or refused, the sum *)
(* of its transactions is its balance, a positive opening balance being    *)
(* the first of the transactions; and no call removes or changes a         *)
(* transaction: the transactions before a call are a prefix of those       *)
(* after it.                                                               *)
C27_TransactionsSumToBalance ==
    [][\A k \in DOMAIN bank_accounts' :
        /\ Sum(bank_accounts'[k].transactions) = bank_accounts'[k].balance
        /\ OpeningBalance(k) > 0
           => bank_accounts'[k].transactions[1] = OpeningBalance(k)
        /\ k \in DOMAIN bank_accounts
           => IsPrefix(bank_accounts[k].transactions, bank_accounts'[k].transactions)
    ]_vars

(* C27 as the specification states it: the sum of the transactions plus    *)
(* the opening balance is the balance.                                     *)
C27_AsStated ==
    \A k \in DOMAIN bank_accounts :
        Sum(bank_accounts[k].transactions) + OpeningBalance(k) = bank_accounts[k].balance

\* an account opened with 1.00 has taken a deposit and has two transactions
C27_Witness ==
    /\ result.op = "deposit" /\ result.out = "ok"
    /\ \E k \in DOMAIN bank_accounts :
          /\ OpeningBalance(k) > 0
          /\ Len(bank_accounts[k].transactions) = 2
          /\ bank_accounts[k].transactions[2] > 0

----------------------------------------------------------------------------
(* C28: check_withdrawal(value) changes nothing and returns authorized and *)
(* uses_limit as follows.  Savings account: authorized = (value <=         *)
(* balance), uses_limit False when authorized and None otherwise.          *)
(* Checking account: authorized = (value <= balance + remaining credit),   *)
(* remaining credit being the credit line minus the used credit;           *)
(* uses_limit None when not authorized and (value > balance) otherwise.    *)
(* And a value above the balance of a savings account is not authorized    *)
(* and is refused by withdraw.                                             *)
C28_CheckWithdrawalTriState ==
    [][result'.op = "check_withdrawal"
       => /\ UNCHANGED <<bankVars, auth_token>>
          /\ \A k \in DOMAIN bank_accounts : \A v \in AcctAmounts(k) :
               CheckWithdrawal(k, v)
               => LET a == bank_accounts[k]
                      info == CHOOSE i \in result'.ret : TRUE
                  IN /\ result'.ret # None
                     /\ IF a.kind = "SavingsAccount"
                        THEN /\ info.authorized = (v <= a.balance)
                             /\ info.uses_limit =
                                  IF info.authorized THEN Some(FALSE) ELSE None
                             /\ v > a.balance
                                => ~info.authorized /\ ~withdraw(a, v).ok
                        ELSE /\ info.authorized =
                                  (v <= a.balance + (CREDIT_LIMIT - a.used_credit))
                             /\ info.uses_limit =
                                  IF info.authorized THEN Some(v > a.balance) ELSE None
    ]_vars

\* an overdrawn checking account was asked about an amount and answered
\* that it is authorized and uses the credit line
C28_Witness ==
    /\ result.op = "check_withdrawal"
    /\ result.ret = Some([authorized |-> TRUE, uses_limit |-> Some(TRUE)])
    /\ \E k \in DOMAIN bank_accounts :
          /\ bank_accounts[k].kind = "CheckingAccount"
          /\ bank_accounts[k].balance < 0

----------------------------------------------------------------------------
(* C29: whatever deposits, withdrawals, freezing and unfreezing an account *)
(* has gone through, decoding its dictionary succeeds and gives an account *)
(* of the same class, branch, number, balance, transactions, active flag   *)
(* and used credit.                                                        *)
C29_AccountRoundTrip ==
    [][result'.op = "from_dict"
       => /\ result'.out = "ok"
          /\ bank_accounts' = bank_accounts
          /\ \A k \in DOMAIN bank_accounts :
                from_dict(to_dict(bank_accounts[k])).account = Some(bank_accounts[k])
    ]_vars

----------------------------------------------------------------------------
\* passwords that are not six digits: a letter among them, too short, too
\* long, empty
MalformedInputs ==
    MalformedPasswords \cup {<<"1", "1", "1", "1", "1">>,
                             <<"1", "1", "1", "1", "1", "1", "1">>, <<>>}

\* the call raised, and left registries, associations, active flags and
\* counters as they were
RejectedUnchanged(o) ==
    /\ o.out \notin {"Account", "ok", "None", "True", "False"}
    /\ o.ret = None
    /\ o.clients = bank_clients
    /\ o.accounts = bank_accounts
    /\ o.assoc = associated_clients
    /\ o.attempts = access_attempts

(* C30: a call of get_account, close_account, agg_new_client,              *)
(* agg_new_account or unfreeze_account with a malformed password raises    *)
(* and changes no registry, association, active flag or counter, so that   *)
(* the malformed password is not counted as a failed attempt.  The error   *)
(* is BankPasswordError whenever the call passes the checks made before    *)
(* the password is looked at: the integrity checks of the token for        *)
(* get_account and close_account, a client and an account that are not     *)
(* registered for agg_new_client, a registered client and an account that  *)
(* is not for agg_new_account, a frozen account and a well-formed name and *)
(* birth date for unfreeze_account; otherwise it is the error of the check *)
(* that failed.                                                            *)
C30_MalformedPasswordRejected ==
    \A p \in MalformedInputs :
        /\ \A t \in PresentableTokens :
              /\ RejectedUnchanged(get_account(t, p))
              /\ RejectedUnchanged(close_account(t, p))
              /\ Passes(t)
                 => /\ get_account(t, p).out = "BankPasswordError"
                    /\ close_account(t, p).out = "BankPasswordError"
              /\ \A i \in Identities :
                    /\ RejectedUnchanged(unfreeze_account(t, i[1], i[2], p))
                    /\ ( /\ IsFrozen(target_key(t))
                         /\ validate_name(i[1]) /\ validate_birth_date(i[2]) )
                       => unfreeze_account(t, i[1], i[2], p).out = "BankPasswordError"
        /\ \A c \in NewClients, a \in NewAccounts :
              /\ RejectedUnchanged(agg_new_client(c, a, p))
              /\ ( /\ c.client_cpf \notin DOMAIN bank_clients
                   /\ ~Registered(extract_account_key(a)) )
                 => agg_new_client(c, a, p).out = "BankPasswordError"
        /\ \A c \in Cpfs, a \in NewAccounts :
              /\ RejectedUnchanged(agg_new_account(c, a, p))
              /\ ( /\ c \in DOMAIN associated_clients
                   /\ ~Registered(extract_account_key(a)) )
                 => agg_new_account(c, a, p).out = "BankPasswordError"

(* C30 as the specification states it, for the token authenticate issued   *)
(* and any state of its account: each operation answers a malformed        *)
(* password with BankPasswordError and changes nothing.                    *)
C30_AsStated ==
    \A p \in MalformedInputs :
        /\ \A t \in auth_token :
              /\ Registered(target_key(t))
                 => /\ RejectedUnchanged(get_account(t, p))
                    /\ get_account(t, p).out = "BankPasswordError"
                    /\ RejectedUnchanged(close_account(t, p))
                    /\ close_account(t, p).out = "BankPasswordError"
              /\ \A i \in Identities :
                    IsFrozen(target_key(t))
                    => /\ RejectedUnchanged(unfreeze_account(t, i[1], i[2], p))
                       /\ unfreeze_account(t, i[1], i[2], p).out = "BankPasswordError"
        /\ \A c \in NewClients, a \in NewAccounts :
              ( /\ c.client_cpf \notin DOMAIN bank_clients
                /\ ~Registered(extract_account_key(a)) )
              => /\ RejectedUnchanged(agg_new_client(c, a, p))
                 /\ agg_new_client(c, a, p).out = "BankPasswordError"

\* get_account has refused a malformed password, presented with the token
\* of an active account after two wrong passwords, and the counter is still 2
C30_Witness ==
    \E t \in auth_token :
        /\ result.op = "get_account" /\ result.tok = {t}
        /\ result.out = "BankPasswordError"
        /\ IsActive(target_key(t))
        /\ Attempts(t.client_cpf) = 2

----------------------------------------------------------------------------
(* C31: get_account returns an account only to the client it was           *)
(* registered under: whenever get_account has returned an account, every   *)
(* association entry that leads to that account belongs to the client of   *)
(* the token, so that no entry made by another client's registration       *)
(* leads to it.                                                            *)
C31_OnlyOwnerGetsAccount ==
    (result.op = "get_account" /\ result.out = "Account")
    => \A t \in result.tok : \A e \in EntriesTo(target_key(t)) :
          e[1] = t.client_cpf

----------------------------------------------------------------------------
(* C32: a get_account call with a token that carries a client's id freezes *)
(* no account but one that this client has a password for: an account      *)
(* that is associated with another client only stays active.               *)
C32_WrongPasswordsFreezeOwnAccountsOnly ==
    [][\A t \in auth_token :
        (result'.op = "get_account" /\ result'.tok = {t})
        => \A k \in DOMAIN bank_accounts :
              (IsActive(k) /\ IsFrozen(k)') => k \in AccountsOf(t.client_cpf)
    ]_vars

----------------------------------------------------------------------------
(* C33: get_account freezes an account only when at least three wrong      *)
(* passwords were presented with a token naming that account since the     *)
(* client's counter was last reset.  The counter tells how many wrong      *)
(* passwords the client has presented since then; so a call that freezes   *)
(* the account its token names while the counter was at most 2 does not    *)
(* come right after a wrong password that was presented with a token       *)
(* naming another account of the client: of the at most three wrong        *)
(* passwords counted, one would not be for the account frozen.             *)
C33_ThreeWrongOnTheSameAccount ==
    [][\A t \in auth_token :
        ( /\ result'.op = "get_account" /\ result'.tok = {t}
          /\ IsActive(target_key(t)) /\ IsFrozen(target_key(t))'
          /\ Attempts(t.client_cpf) <= 2 )
        => ~( /\ result.op = "get_account"
              /\ result.out = "AccountNotFoundError"
              /\ \E t0 \in result.tok :
                    /\ t0.client_cpf = t.client_cpf
                    /\ target_key(t0) # target_key(t) )
    ]_vars

----------------------------------------------------------------------------
(* C34: in every reachable state each client's failed-attempt counter is   *)
(* between 0 and 3 (MAX_ATTEMPTS) inclusive, also for a client that owns   *)
(* several accounts of which one is already frozen.                        *)
C34_CounterAtMostThree ==
    \A c \in DOMAIN access_attempts :
        /\ access_attempts[c] >= 0
        /\ access_attempts[c] <= MAX_ATTEMPTS

----------------------------------------------------------------------------
(* C35: if unfreeze_account ends with an error, the client's association   *)
(* map is unchanged: the frozen account is still associated with its       *)
(* previous password.                                                      *)
C35_FailedUnfreezeKeepsAssociations ==
    [][\A t \in auth_token :
        ( /\ result'.op = "unfreeze_account" /\ result'.tok = {t}
          /\ result'.out # "True" )
        => associated_clients' = associated_clients
    ]_vars

----------------------------------------------------------------------------
(* C36: for every reachable state of a fixed (savings) or an overdraft     *)
(* (checking) account and every value >= 0.5, check_withdrawal(value)      *)
(* reports authorized exactly when withdraw(value) on that same state      *)
(* would succeed.                                                          *)
C36_CheckAgreesWithWithdraw ==
    \A k \in DOMAIN bank_accounts :
        \A v \in AcctAmounts(k) :
            v >= MIN_VALUE
            => ( check_withdrawal(bank_accounts[k], v).authorized
                 <=> withdraw(bank_accounts[k], v).ok )

----------------------------------------------------------------------------
(* C37: every account held in the account registry carries the bank's own  *)
(* branch code, so that for every registered account and every client it   *)
(* is registered under, authenticate(client id, branch, account number)    *)
(* returns a signed token.                                                 *)
C37_RegisteredAccountsAuthenticate ==
    \A k \in DOMAIN bank_accounts :
        /\ bank_accounts[k].branch_code = HomeBranch
        /\ \A e \in EntriesTo(k) :
              \E t \in authenticate(e[1], k[1], k[2]) : t.signature

----------------------------------------------------------------------------
(* C38: while an account is frozen, no withdraw on it succeeds (a handle   *)
(* obtained from get_account before the freeze included) and get_account   *)
(* does not return it.                                                     *)
C38_FrozenAccountRefusesWithdrawAndAccess ==
    [][ /\ \A k \in DOMAIN bank_accounts :
              ( /\ result'.op = "withdraw"
                /\ IsFrozen(k)
                /\ \E v \in Amounts : Withdraw(k, v) )
              => result'.out # "ok"
        /\ \A t \in auth_token :
              ( /\ result'.op = "get_account" /\ result'.tok = {t}
                /\ IsFrozen(target_key(t)) )
              => result'.out # "Account"
    ]_vars

----------------------------------------------------------------------------
(* C39: when get_account raises a security error or an integrity failure   *)
(* during a logged-in session, the controller does not prompt for the      *)
(* password again: the current workflow ends and the session token is      *)
(* discarded, so that the next operation needs a new authenticate.  In     *)
(* the state the failed _get_access leaves behind, no token is held.       *)
C39_SecurityErrorDiscardsToken ==
    (result.op = "_get_access" /\ result.out = "RuntimeError")
    => auth_token = None

----------------------------------------------------------------------------
(* C40: in the transaction workflow withdraw is called on the account only *)
(* after check_withdrawal returned authorized and, when uses_limit is      *)
(* true, only after the user confirmed the use of the overdraft; an        *)
(* unauthorized request or a declined confirmation leaves the balance and  *)
(* the transaction log unchanged.                                          *)
C40_WithdrawOnlyWhenAuthorizedAndConfirmed ==
    [][\A t \in auth_token :
        (result'.op = "_handle_withdraw" /\ result'.tok = {t})
        => \A v \in CtlAmounts(target_key(t)), o \in LimitOptions :
              HandleWithdraw(t, v, o)
              => LET account == bank_accounts[target_key(t)]
                     after == bank_accounts'[target_key(t)]
                     info == check_withdrawal(account, v)
                     confirmed == o = 1
                 IN IF info.authorized /\ (info.uses_limit = Some(TRUE) => confirmed)
                    THEN /\ after.balance = account.balance - v
                         /\ after.transactions = Append(account.transactions, -v)
                    ELSE /\ after.balance = account.balance
                         /\ after.transactions = account.transactions
    ]_vars

\* check_withdrawal authorized a withdrawal that needs the overdraft, the
\* user declined it and the handler cancelled
C40_Witness ==
    /\ result.op = "_handle_withdraw"
    /\ \E i \in result.ret : i.authorized /\ i.uses_limit = Some(TRUE)
    /\ result.out = "cancel"

====
